---- MODULE Spec2Model ----
(***************************************************************************)
(* AI Timesheet Creator: the App form (src/unnamed/part_000), the request  *)
(* orchestration generateTimesheet with its prompt composer buildPrompt    *)
(* and the FileUpload component (src/services/geminiService.ts).           *)
(*                                                                         *)
(* JavaScript strings are TLA+ strings (Len, SubSeq and \o act on them as  *)
(* length, substring and concatenation).  A nullable value (File | null,   *)
(* string | null) is a sequence of length at most one: <<>> is null.       *)
(***************************************************************************)
EXTENDS Integers, Sequences, FiniteSets, TLC

\* ------------------------------------------------------------------ bounds

\* Invocations of handleSubmit per behaviour.
MaxSubmits == 2

\* ------------------------------------------------------- JavaScript strings

\* Characters String.prototype.trim strips (those the inputs below use).
WhiteSpace == {" ", "\n", "\t"}

RECURSIVE trimStart(_)
trimStart(s) ==
    IF Len(s) > 0 /\ SubSeq(s, 1, 1) \in WhiteSpace
    THEN trimStart(SubSeq(s, 2, Len(s)))
    ELSE s

RECURSIVE trimEnd(_)
trimEnd(s) ==
    IF Len(s) > 0 /\ SubSeq(s, Len(s), Len(s)) \in WhiteSpace
    THEN trimEnd(SubSeq(s, 1, Len(s) - 1))
    ELSE s

\* String.prototype.trim
trim(s) == trimEnd(trimStart(s))

\* String.prototype.startsWith
startsWith(s, p) == Len(s) >= Len(p) /\ SubSeq(s, 1, Len(p)) = p

\* ToBoolean of a string: the empty string is falsy.
truthy(s) == s # ""

null == <<>>

\* --------------------------------------------------------------- buildPrompt

promptHead(startDate) ==
    "You are a helpful assistant that generates detailed timesheets in Markdown format. Your task is to analyze the provided calendar information, a voice narration of the week's work, and a starting date. Combine all this information to create a structured timesheet.\n\n**Generate a timesheet for the week commencing "
    \o startDate
    \o ".**\n\nHere is the information I have provided:\n"

bulletImage == "- A calendar screenshot.\n"
bulletText == "- Text from my calendar.\n"
bulletNarration == "- A voice narration transcript of my work.\n"

promptInstructions(startDate) ==
    "\n**Instructions for the output:**\n\n1.  Create a main heading: 'Timesheet for Week Commencing "
    \o startDate
    \o "'.\n2.  For each day of the week (Monday to Friday, or as indicated by the data), create a subheading.\n3.  Under each day, list the activities as bullet points. Incorporate meetings from the calendar data and tasks from the voice narration.\n4.  If time estimates are mentioned in the voice narration (e.g., 'I spent 3 hours on Project X'), include them next to the task.\n5.  At the end of each day's list, calculate and display the 'Total Hours' for that day in bold.\n6.  After all the days, add a 'Weekly Summary' section.\n7.  In the summary, calculate and display the 'Total Estimated Hours for the Week' in bold.\n8.  Format the entire output as clean, readable Markdown. Use tables for daily summaries if it improves clarity. Ensure the final output is only the markdown, with no extra conversational text or preambles.\n"

buildPrompt_emptyInventory(startDate, hasImage, hasText, hasNarration) ==
    LET p0 == promptHead(startDate)
        p1 == IF hasImage THEN p0 \o bulletImage ELSE p0
        p2 == IF hasText THEN p1 \o bulletText ELSE p1
        p3 == IF hasNarration THEN p2 \o bulletNarration ELSE p2
    IN  IF hasImage \/ hasText \/ hasNarration
        THEN p3 \o promptInstructions(startDate)
        ELSE p3

buildPrompt(startDate, hasImage, hasText, hasNarration) ==
    LET p0 == promptHead(startDate)
        p1 == IF hasImage THEN p0 \o bulletImage ELSE p0
        p2 == IF hasText THEN p1 \o bulletText ELSE p1
        p3 == IF hasNarration THEN p2 \o bulletNarration ELSE p2
    IN  p3 \o promptInstructions(startDate)

\* --------------------------------------------------------- generateTimesheet

calendarHeader == "\n\n--- CALENDAR TEXT ---\n"
narrationHeader == "\n\n--- VOICE NARRATION TRANSCRIPT ---\n"

combinedText_trimmed(promptText, calText, narr) ==
    LET t1 == IF truthy(trim(calText))
              THEN promptText \o calendarHeader \o trim(calText)
              ELSE promptText
    IN  IF truthy(trim(narr))
        THEN t1 \o narrationHeader \o trim(narr)
        ELSE t1

\* let combinedText = promptText; ... the two conditional appends.
combinedText(promptText, calText, narr) ==
    LET t1 == IF truthy(trim(calText))
              THEN promptText \o calendarHeader \o calText
              ELSE promptText
    IN  IF truthy(trim(narr))
        THEN t1 \o narrationHeader \o narr
        ELSE t1

\* The value fileToBase64 resolves with: the file's bytes in base64, kept as
\* the encoding of the named file (no claim reads the digits).
fileToBase64(file) == "base64(" \o file.name \o ")"

\* parts.push({inlineData: {mimeType: imageFile.type, data: base64Image}})
inlineDataPart(file, base64Image) ==
    [inlineData |-> [mimeType |-> file.type, data |-> base64Image]]

\* An invocation of generateTimesheet that has just been entered: the
\* destructured parameters, an empty parts array, nothing sent.
newCall(id, caller, imageFile, calText, narr, startDate) ==
    [id |-> id, caller |-> caller,
     imageFile |-> imageFile, calendarText |-> calText,
     narration |-> narr, startDate |-> startDate,
     pc |-> "entered", parts |-> <<>>, promptText |-> "", sent |-> 0]

\* ai.models.generateContent({model, contents: {parts}}): one outbound request.
generateContent(c) == [c EXCEPT !.sent = @ + 1, !.pc = "request"]

\* Lines 65-79: compose the prompt, append the sections, push the text part
\* and call the service; the invocation then awaits the response.
composeAndSend(c) ==
    LET promptText == buildPrompt(c.startDate, c.imageFile # null,
                                  truthy(trim(c.calendarText)),
                                  truthy(trim(c.narration)))
        text == combinedText(promptText, c.calendarText, c.narration)
    IN  generateContent([c EXCEPT !.promptText = promptText,
                                  !.parts = Append(@, [text |-> text])])

\* Lines 53-63 and on: the synchronous part of an invocation, up to its first
\* await: fileToBase64 when there is an image, generateContent otherwise.
enterGenerateTimesheet(c) ==
    IF c.imageFile # null
    THEN [c EXCEPT !.pc = "encode"]
    ELSE composeAndSend(c)

\* Resumption after `await fileToBase64(imageFile)` resolved.
afterEncode(c) ==
    composeAndSend([c EXCEPT !.parts =
        Append(@, inlineDataPart(c.imageFile[1], fileToBase64(c.imageFile[1])))])

failureString_generic(e) ==
    "Error: An unknown error occurred while generating the timesheet."

\* The catch block of generateTimesheet: the string it returns for a thrown value.
failureString(e) ==
    IF e.isError
    THEN "Error: An error occurred while generating the timesheet. " \o e.message
    ELSE "Error: An unknown error occurred while generating the timesheet."

\* What generateTimesheet hands back, with what the caller's harness saw of
\* the invocation: the requests it sent and how the service settled.
finished(c, service, outcome) ==
    [id |-> c.id, caller |-> c.caller, imageFile |-> c.imageFile,
     sent |-> c.sent, service |-> service, outcome |-> outcome]

afterResolve_trimmed(c, response) ==
    finished(c, [kind |-> "resolve", response |-> response],
             [kind |-> "return", value |-> trim(response.text)])

\* Line 84: return response.text
afterResolve(c, response) ==
    finished(c, [kind |-> "resolve", response |-> response],
             [kind |-> "return", value |-> response.text])

afterReject_retries(c, e) ==
    finished(generateContent(c), [kind |-> "reject", error |-> e],
             [kind |-> "return", value |-> failureString(e)])

\* Lines 85-91: the catch block returns the failure string; nothing is re-sent.
afterReject(c, e) ==
    finished(c, [kind |-> "reject", error |-> e],
             [kind |-> "return", value |-> failureString(e)])

\* Line 56 is outside the try block: a rejection of fileToBase64 leaves
\* generateTimesheet as a rejection, before any request was composed.
afterEncodeFailure(c, e) ==
    finished(c, [kind |-> "none"], [kind |-> "throw", error |-> e])

\* ------------------------------------------------------------------- inputs

\* Values of the <input type="date">: an ISO date, or "" when cleared.
Dates == {"2024-03-04", "2025-01-06"}

\* Contents of the calendar textarea.
CalendarTexts == {"", " \n", " Mon 10am: Project sync\n"}

\* What VoiceRecorder passes to onTranscriptionComplete: '' (resetState) or
\* the trimmed final transcript (recorder.onstop).
Narrations == {"", "I spent 3 hours on Project X"}

\* Narrations a direct caller of generateTimesheet may pass.
AnyNarrations == Narrations \cup {" \t"}

\* Files the user may pick in the file dialog.
Files ==
    {[name |-> "calendar.png", type |-> "image/png"],
     [name |-> "notes.txt", type |-> "text/plain"]}

ImageFiles == {f \in Files : startsWith(f.type, "image/")}

\* Responses the service may resolve with (response.text).
Responses ==
    {[text |-> "## Monday"],
     [text |-> " ## Monday\n"],
     [text |-> "Error: no calendar data"]}

\* Values a rejected promise may carry: Error objects with their message,
\* and a value that is no Error (its .message is undefined, here "").
ThrownValues ==
    {[isError |-> TRUE, message |-> "quota exceeded"],
     [isError |-> TRUE, message |-> ""],
     [isError |-> FALSE, message |-> ""]}

\* -------------------------------------------------------------------- state

VARIABLES
    screenshotFile,      \* App: File | null
    calendarText,        \* App: string
    narration,           \* App: string
    weekStartDate,       \* App: string
    generatedTimesheet,  \* App: string
    isLoading,           \* App: boolean
    error,               \* App: string | null
    calls,               \* invocations of generateTimesheet awaiting a promise
    last,                \* the invocation that finished last (null before)
    submits,             \* invocations of handleSubmit so far
    vr,                  \* VoiceRecorder: its state and refs
    browser              \* media and speech services the recorder talks to

formVars == <<screenshotFile, calendarText, narration, weekStartDate>>
resultVars == <<generatedTimesheet, isLoading, error>>
recorderVars == <<vr, browser>>
vars == <<screenshotFile, calendarText, narration, weekStartDate,
          generatedTimesheet, isLoading, error, calls, last, submits,
          vr, browser>>

\* ---------------------------------------------------------------------- App

isFormValid_noTrim ==
    (truthy(narration) \/ truthy(calendarText) \/ screenshotFile # null)
    /\ truthy(weekStartDate)

\* Line 25, as the boolean the two uses (!isFormValid) read.
isFormValid ==
    (truthy(trim(narration)) \/ truthy(trim(calendarText)) \/ screenshotFile # null)
    /\ truthy(weekStartDate)

disabled_ignoresLoading == ~isFormValid

\* Line 116: disabled={!isFormValid || isLoading}
disabled == ~isFormValid \/ isLoading

validationMessage ==
    "Please provide calendar info (screenshot or text) or a voice narration, and select a start date."

\* Lines 28-31: the early return.
handleSubmitRejects ==
    /\ error' = <<validationMessage>>
    /\ UNCHANGED <<generatedTimesheet, isLoading, calls>>

handleSubmitStarts_keepsResult ==
    /\ error' = null
    /\ isLoading' = TRUE
    /\ UNCHANGED generatedTimesheet
    /\ calls' = Append(calls, enterGenerateTimesheet(
                    newCall(submits + 1, "handleSubmit", screenshotFile,
                            calendarText, narration, weekStartDate)))

\* Lines 32-42: clear the previous outcome, raise the busy flag and call
\* generateTimesheet, which runs up to its first await.
handleSubmitStarts ==
    /\ error' = null
    /\ isLoading' = TRUE
    /\ generatedTimesheet' = ""
    /\ calls' = Append(calls, enterGenerateTimesheet(
                    newCall(submits + 1, "handleSubmit", screenshotFile,
                            calendarText, narration, weekStartDate)))

handleSubmit_noValidation ==
    /\ handleSubmitStarts
    /\ submits' = submits + 1
    /\ UNCHANGED <<formVars, last, recorderVars>>

\* Lines 27-42: handleSubmit up to `await generateTimesheet(...)`.
handleSubmit ==
    /\ IF ~isFormValid THEN handleSubmitRejects ELSE handleSubmitStarts
    /\ submits' = submits + 1
    /\ UNCHANGED <<formVars, last, recorderVars>>

resumeSubmit_noFinally(outcome) ==
    IF outcome.kind = "return"
    THEN /\ IF startsWith(outcome.value, "Error:")
            THEN error' = <<outcome.value>> /\ UNCHANGED generatedTimesheet
            ELSE generatedTimesheet' = outcome.value /\ UNCHANGED error
         /\ isLoading' = FALSE
    ELSE /\ error' = <<IF truthy(outcome.error.message)
                       THEN outcome.error.message
                       ELSE "An unknown error occurred.">>
         /\ UNCHANGED <<generatedTimesheet, isLoading>>

\* Lines 43-54: handleSubmit resumed by the settled generateTimesheet promise.
resumeSubmit(outcome) ==
    /\ IF outcome.kind = "return"
       THEN IF startsWith(outcome.value, "Error:")
            THEN error' = <<outcome.value>> /\ UNCHANGED generatedTimesheet
            ELSE generatedTimesheet' = outcome.value /\ UNCHANGED error
       ELSE /\ error' = <<IF truthy(outcome.error.message)
                          THEN outcome.error.message
                          ELSE "An unknown error occurred.">>
            /\ UNCHANGED generatedTimesheet
    /\ isLoading' = FALSE

\* ----------------------------------------------------------- form events

\* Line 88: onChange of the date input.
SetWeekStartDate(d) ==
    /\ weekStartDate' = d
    /\ UNCHANGED <<screenshotFile, calendarText, narration, resultVars,
                   calls, last, submits, recorderVars>>

\* Line 104: onChange of the calendar textarea.
SetCalendarText(t) ==
    /\ calendarText' = t
    /\ UNCHANGED <<screenshotFile, narration, weekStartDate, resultVars,
                   calls, last, submits, recorderVars>>

\* Line 110: VoiceRecorder's onTranscriptionComplete is setNarration.
OnTranscriptionComplete(t) ==
    /\ narration' = t
    /\ UNCHANGED <<screenshotFile, calendarText, weekStartDate, resultVars,
                   calls, last, submits, recorderVars>>

\* FileUpload.handleFileChange: an image file is passed up, anything else
\* (no file, or a file that is no image) goes through handleRemoveFile.
HandleFileChange(picked) ==
    /\ screenshotFile' = IF picked # null /\ startsWith(picked[1].type, "image/")
                         THEN picked
                         ELSE null
    /\ UNCHANGED <<calendarText, narration, weekStartDate, resultVars,
                   calls, last, submits, recorderVars>>

\* FileUpload.handleRemoveFile, from the "Remove image" button.
HandleRemoveFile ==
    /\ screenshotFile # null
    /\ screenshotFile' = null
    /\ UNCHANGED <<calendarText, narration, weekStartDate, resultVars,
                   calls, last, submits, recorderVars>>

\* A click on the submit button: the browser delivers it only when the
\* button is not disabled.
ClickSubmit ==
    /\ ~disabled
    /\ submits < MaxSubmits
    /\ handleSubmit

\* ------------------------------------------------- promises that settle

remove(seq, i) == SubSeq(seq, 1, i - 1) \o SubSeq(seq, i + 1, Len(seq))

\* Invocation i of generateTimesheet settles as `done`; when handleSubmit
\* awaits it, handleSubmit resumes in the same turn.
settle(i, done) ==
    /\ calls' = remove(calls, i)
    /\ last' = <<done>>
    /\ IF calls[i].caller = "handleSubmit"
       THEN resumeSubmit(done.outcome)
       ELSE UNCHANGED resultVars
    /\ UNCHANGED <<formVars, submits, recorderVars>>

\* fileToBase64 resolves: generateTimesheet goes on to the request.
EncodeResolve(i) ==
    /\ calls[i].pc = "encode"
    /\ calls' = [calls EXCEPT ![i] = afterEncode(@)]
    /\ UNCHANGED <<formVars, resultVars, last, submits, recorderVars>>

\* fileToBase64 rejects (the file cannot be read).
EncodeReject(i, e) ==
    /\ calls[i].pc = "encode"
    /\ settle(i, afterEncodeFailure(calls[i], e))

\* generateContent resolves with a response.
GenerateContentResolve(i, response) ==
    /\ calls[i].pc = "request"
    /\ settle(i, afterResolve(calls[i], response))

\* generateContent throws or rejects.
GenerateContentReject(i, e) ==
    /\ calls[i].pc = "request"
    /\ settle(i, afterReject(calls[i], e))

Settle ==
    \E i \in 1..Len(calls) :
        \/ EncodeResolve(i)
        \/ \E e \in ThrownValues : EncodeReject(i, e)
        \/ \E r \in Responses : GenerateContentResolve(i, r)
        \/ \E e \in ThrownValues : GenerateContentReject(i, e)

\* ------------------------------------------------------------ VoiceRecorder

\* getUserMedia requests the recorder may have pending at once.
MaxPending == 2

\* Length of the accumulated final transcript beyond which no result arrives.
MaxTranscriptLen == 20

microphoneMessage == "Could not access microphone. Please grant permission."
unsupportedMessage == "Speech recognition is not supported in this browser."

\* event.results from event.resultIndex on, as one onresult event carries them.
ResultEvents ==
    {<<[isFinal |-> FALSE, transcript |-> "I spent"]>>,
     <<[isFinal |-> TRUE, transcript |-> "I spent 3 hours"]>>,
     <<[isFinal |-> TRUE, transcript |-> "on X"],
       [isFinal |-> FALSE, transcript |-> "and"]>>}

\* event.error of a SpeechRecognitionErrorEvent.
RecognitionErrors == {"no-speech", "network"}

\* The component as mounted (the useState and useRef initial values).
\* mediaRecorder is "none" for a null ref, else the recorder's state; onstop
\* tells whether its onstop handler is attached; recognition is "none" for a
\* null ref, else "new", "started" or "stopped".
mounted ==
    [recordingState |-> "IDLE", transcript |-> "", error |-> null,
     mediaRecorder |-> "none", onstop |-> FALSE,
     recognition |-> "none", finalTranscript |-> ""]

\* The page's services at load: whether SpeechRecognition exists, the pending
\* getUserMedia promises, a queued stop event of a recorder whose onstop is
\* attached, and the speech session ("off", "on", or "stopping" after stop()).
atLoad(supported) ==
    [isSpeechRecognitionSupported |-> supported, mediaRequests |-> 0,
     stopPending |-> FALSE, session |-> "off"]

\* recognition.stop() on the object in recognitionRef, if any.
afterRecognitionStop(v, b) ==
    IF v.recognition = "started" /\ b.session = "on"
    THEN [b EXCEPT !.session = "stopping"]
    ELSE b

\* What resetState does to the services: it stops a recorder that is not
\* inactive (its stop event is queued) and stops the recognition.
resetServices(v, b) ==
    LET b1 == IF v.mediaRecorder = "recording"
              THEN [b EXCEPT !.stopPending = @ \/ v.onstop]
              ELSE b
    IN  afterRecognitionStop(v, b1)

\* resetState: the component's state and refs after it; it also calls
\* onTranscriptionComplete('') (see the actions).
resetState(v) == mounted

\* recognitionRef.current.start() throws: on a null ref, and on a recognition
\* whose session has not ended.
startThrows(v, b) ==
    \/ v.recognition = "none"
    \/ v.recognition \in {"started", "stopped"} /\ b.session # "off"

\* The catch block of startRecording: setError(...), then resetState().
catchStartFailure(v) ==
    resetState([v EXCEPT !.error = <<microphoneMessage>>])

\* A click on the mic button: startRecording up to `await getUserMedia`.
StartRecording ==
    /\ vr.recordingState = "IDLE"
    /\ browser.mediaRequests < MaxPending
    /\ narration' = ""
    /\ IF ~browser.isSpeechRecognitionSupported
       THEN /\ vr' = [resetState(vr) EXCEPT !.error = <<unsupportedMessage>>]
            /\ browser' = resetServices(vr, browser)
       ELSE /\ vr' = [resetState(vr) EXCEPT !.recognition = "new"]
            /\ browser' = [resetServices(vr, browser) EXCEPT
                              !.mediaRequests = @ + 1]
    /\ UNCHANGED <<screenshotFile, calendarText, weekStartDate, resultVars,
                   calls, last, submits>>

\* getUserMedia rejects: the catch block.
GetUserMediaReject ==
    /\ browser.mediaRequests > 0
    /\ vr' = catchStartFailure(vr)
    /\ browser' = [resetServices(vr, browser) EXCEPT !.mediaRequests = @ - 1]
    /\ narration' = ""
    /\ UNCHANGED <<screenshotFile, calendarText, weekStartDate, resultVars,
                   calls, last, submits>>

\* getUserMedia resolves: the recorder is created and started; then either
\* recognition.start() throws (the catch block runs, the recorder has no
\* onstop handler yet) or the handler is attached and the state is RECORDING.
GetUserMediaResolve ==
    /\ browser.mediaRequests > 0
    /\ LET v1 == [vr EXCEPT !.mediaRecorder = "recording", !.onstop = FALSE]
           b1 == [browser EXCEPT !.mediaRequests = @ - 1]
       IN  IF startThrows(vr, browser)
           THEN /\ vr' = catchStartFailure(v1)
                /\ browser' = resetServices(v1, b1)
                /\ narration' = ""
           ELSE /\ vr' = [v1 EXCEPT !.onstop = TRUE,
                                    !.recognition = "started",
                                    !.recordingState = "RECORDING"]
                /\ browser' = [b1 EXCEPT !.session = "on"]
                /\ UNCHANGED narration
    /\ UNCHANGED <<screenshotFile, calendarText, weekStartDate, resultVars,
                   calls, last, submits>>

\* A click on the stop button: stopRecording.
StopRecording ==
    /\ vr.recordingState = "RECORDING"
    /\ IF vr.mediaRecorder = "recording"
       THEN /\ vr' = [vr EXCEPT !.mediaRecorder = "inactive"]
            /\ browser' = [browser EXCEPT !.stopPending = @ \/ vr.onstop]
       ELSE UNCHANGED recorderVars
    /\ UNCHANGED <<formVars, resultVars, calls, last, submits>>

\* The recorder's stop event: recorder.onstop.
RecorderOnStop ==
    /\ browser.stopPending
    /\ vr' = [vr EXCEPT !.recordingState = "FINISHED",
                        !.recognition = IF @ = "started" THEN "stopped" ELSE @]
    /\ browser' = [afterRecognitionStop(vr, browser) EXCEPT
                      !.stopPending = FALSE]
    /\ narration' = trim(vr.finalTranscript)
    /\ UNCHANGED <<screenshotFile, calendarText, weekStartDate, resultVars,
                   calls, last, submits>>

\* A click on the retake button: resetState.
Retake ==
    /\ vr.recordingState = "FINISHED"
    /\ vr' = resetState(vr)
    /\ browser' = resetServices(vr, browser)
    /\ narration' = ""
    /\ UNCHANGED <<screenshotFile, calendarText, weekStartDate, resultVars,
                   calls, last, submits>>

\* The loop of recognition.onresult over the results of one event: the
\* final transcript and the interim transcript after it.
RECURSIVE accumulate(_, _, _)
accumulate(results, final, interim) ==
    IF results = <<>>
    THEN [final |-> final, interim |-> interim]
    ELSE IF Head(results).isFinal
         THEN accumulate(Tail(results),
                         final \o Head(results).transcript \o " ", interim)
         ELSE accumulate(Tail(results), final,
                         interim \o Head(results).transcript)

\* recognition.onresult, while the session delivers results: also after
\* stop(), which returns what was captured so far.
OnResult(results) ==
    /\ browser.session \in {"on", "stopping"}
    /\ Len(vr.finalTranscript) < MaxTranscriptLen
    /\ LET a == accumulate(results, vr.finalTranscript, "")
       IN  vr' = [vr EXCEPT !.finalTranscript = a.final,
                            !.transcript = a.final \o a.interim]
    /\ UNCHANGED <<formVars, resultVars, calls, last, submits, browser>>

\* recognition.onerror; the session ends with the error.
OnRecognitionError(err) ==
    /\ browser.session # "off"
    /\ vr' = IF err # "no-speech"
             THEN [vr EXCEPT !.error = <<"Speech recognition error: " \o err>>]
             ELSE vr
    /\ browser' = [browser EXCEPT !.session = "off"]
    /\ UNCHANGED <<formVars, resultVars, calls, last, submits>>

\* The session ends after stop().
RecognitionEnd ==
    /\ browser.session = "stopping"
    /\ browser' = [browser EXCEPT !.session = "off"]
    /\ UNCHANGED <<formVars, resultVars, calls, last, submits, vr>>

\* ------------------------------------------------------- the form in use

\* Lines 10-23: the useState initial values; the date is this week's Monday.
Init ==
    /\ screenshotFile = null
    /\ calendarText = ""
    /\ narration = ""
    /\ weekStartDate \in Dates
    /\ generatedTimesheet = ""
    /\ isLoading = FALSE
    /\ error = null
    /\ calls = <<>>
    /\ last = null
    /\ submits = 0
    /\ vr = mounted
    /\ browser = atLoad(TRUE)

Next ==
    \/ \E d \in Dates \cup {""} : SetWeekStartDate(d)
    \/ \E t \in CalendarTexts : SetCalendarText(t)
    \/ \E t \in Narrations : OnTranscriptionComplete(t)
    \/ \E f \in {null} \cup {<<x>> : x \in Files} : HandleFileChange(f)
    \/ HandleRemoveFile
    \/ ClickSubmit
    \/ Settle

Spec == Init /\ [][Next]_vars

\* Every promise the form awaits settles (the service answers or fails).
LiveSpec == Spec /\ WF_vars(Settle)

\* -------------------------------------- the functions called directly

\* handleSubmit invoked on the form as it stands (whatever the button shows).
CallHandleSubmit ==
    /\ calls = <<>>
    /\ submits < MaxSubmits
    /\ handleSubmit

\* generateTimesheet invoked with the form's values, unvalidated.
CallGenerateTimesheet ==
    /\ calls = <<>>
    /\ calls' = <<enterGenerateTimesheet(
                    newCall(0, "direct", screenshotFile,
                            calendarText, narration, weekStartDate))>>
    /\ UNCHANGED <<formVars, resultVars, last, submits, recorderVars>>

\* Any form state, nothing submitted yet.
InitUnit ==
    /\ screenshotFile \in {null} \cup {<<f>> : f \in ImageFiles}
    /\ calendarText \in CalendarTexts
    /\ narration \in AnyNarrations
    /\ weekStartDate \in Dates \cup {""}
    /\ generatedTimesheet = ""
    /\ isLoading = FALSE
    /\ error = null
    /\ calls = <<>>
    /\ last = null
    /\ submits = 0
    /\ vr = mounted
    /\ browser = atLoad(TRUE)

NextUnit ==
    \/ CallHandleSubmit
    \/ CallGenerateTimesheet
    \/ Settle

UnitSpec == InitUnit /\ [][NextUnit]_vars

\* ------------------------------------------------------------- properties

\* s consists of white space only (or is empty).
isBlank(s) == \A i \in 1..Len(s) : SubSeq(s, i, i) \in WhiteSpace

\* p occurs in s.
contains(s, p) ==
    \E i \in 1..(Len(s) - Len(p) + 1) : SubSeq(s, i, i + Len(p) - 1) = p

endsWith(s, p) ==
    Len(s) >= Len(p) /\ SubSeq(s, Len(s) - Len(p) + 1, Len(s)) = p

\* The first position of p in s; 0 when p does not occur.
indexOf(s, p) ==
    IF contains(s, p)
    THEN CHOOSE i \in 1..(Len(s) - Len(p) + 1) :
            /\ SubSeq(s, i, i + Len(p) - 1) = p
            /\ \A j \in 1..(i - 1) : SubSeq(s, j, j + Len(p) - 1) # p
    ELSE 0

\* The validity condition as the specification words it.
validInput ==
    /\ weekStartDate # ""
    /\ \/ screenshotFile # null
       \/ ~isBlank(calendarText)
       \/ ~isBlank(narration)

\* C1: the form is valid exactly when the date is non-empty and an image, a
\* non-blank calendar text or a non-blank narration is present.
C1_FormValidity == isFormValid <=> validInput

\* A form whose only usable input is the narration, beside a calendar text of
\* white space, was accepted by handleSubmit.
C1_Witness ==
    /\ screenshotFile = null
    /\ calendarText # "" /\ isBlank(calendarText)
    /\ ~isBlank(narration)
    /\ Len(calls) = 1 /\ calls[1].caller = "handleSubmit"

\* C2: handleSubmit on an invalid form sets the validation message and returns:
\* no invocation of generateTimesheet starts and the busy flag and the stored
\* timesheet stay as they are.
C2_InvalidSubmitRejected ==
    [][(submits' = submits + 1 /\ ~validInput)
         => /\ error' = <<validationMessage>>
            /\ calls' = calls
            /\ last' = last
            /\ isLoading' = isLoading
            /\ generatedTimesheet' = generatedTimesheet]_vars

\* handleSubmit ran on an invalid form with white-space inputs.
C2_Witness ==
    /\ ~validInput
    /\ calendarText # "" \/ narration # ""
    /\ submits > 0
    /\ error = <<validationMessage>>
    /\ calls = <<>>

\* C3: at most one generateTimesheet call is outstanding; while one is, the
\* busy flag is up and the submit button is disabled.
C3_SingleFlight ==
    /\ Len(calls) <= 1
    /\ calls # <<>> => isLoading /\ disabled

\* A request is outstanding on a form that is valid and could be submitted
\* again were it not for the busy flag.
C3_Witness ==
    /\ Len(calls) = 1
    /\ isFormValid
    /\ submits < MaxSubmits

\* C4 as claimed: every invocation of generateTimesheet that finished has
\* made exactly one generateContent request.
C4_ExactlyOneRequest == last # null => last[1].sent = 1

\* C4 as amended: an invocation never makes more than one request; it has
\* made exactly one once it awaits the service and when it finishes after the
\* service settled (resolved or rejected, no retry), and none while it awaits
\* the image encoding or when that encoding failed.
C4_OneRequestOnceEncoded ==
    /\ \A i \in 1..Len(calls) :
          calls[i].sent = IF calls[i].pc = "request" THEN 1 ELSE 0
    /\ last # null =>
          last[1].sent = IF last[1].service.kind = "none" THEN 0 ELSE 1

\* An invocation with an image whose request the service rejected.
C4_Witness ==
    /\ last # null
    /\ last[1].imageFile # null
    /\ last[1].service.kind = "reject"
    /\ last[1].sent = 1

\* C5: when generateContent rejects, generateTimesheet returns (does not
\* throw) a string that starts with "Error:" and, for a thrown Error, contains
\* its message.
C5_FailureString ==
    (last # null /\ last[1].service.kind = "reject") =>
        /\ last[1].outcome.kind = "return"
        /\ startsWith(last[1].outcome.value, "Error:")
        /\ last[1].service.error.isError =>
              contains(last[1].outcome.value, last[1].service.error.message)

\* The service threw an Error "quota exceeded" and the message came back.
C5_Witness ==
    /\ last # null
    /\ last[1].service.kind = "reject"
    /\ last[1].service.error = [isError |-> TRUE, message |-> "quota exceeded"]
    /\ last[1].outcome.kind = "return"
    /\ contains(last[1].outcome.value, "quota exceeded")

\* C6: when generateContent resolves with text t, generateTimesheet returns t.
C6_TextUnchanged ==
    (last # null /\ last[1].service.kind = "resolve") =>
        last[1].outcome = [kind |-> "return",
                           value |-> last[1].service.response.text]

\* A response with white space around it came back as it was.
C6_Witness ==
    /\ last # null
    /\ last[1].service.kind = "resolve"
    /\ last[1].service.response.text # trim(last[1].service.response.text)
    /\ last[1].outcome.kind = "return"
    /\ last[1].outcome.value = last[1].service.response.text

\* The text part of the request of invocation c (the last part pushed).
requestText(c) == c.parts[Len(c.parts)].text

\* C7: in the request text the composed instruction comes first; a
\* "CALENDAR TEXT" section follows iff calendarText is non-blank, a "VOICE
\* NARRATION TRANSCRIPT" section iff narration is non-blank, each with its
\* source string verbatim, the calendar section before the narration section.
C7_Sections ==
    \A i \in 1..Len(calls) :
        calls[i].pc = "request" =>
            LET c == calls[i]
                text == requestText(c)
                rest == SubSeq(text, Len(c.promptText) + 1, Len(text))
                hasCal == ~isBlank(c.calendarText)
                hasNarr == ~isBlank(c.narration)
            IN  /\ startsWith(text, c.promptText)
                /\ ~contains(c.promptText, "CALENDAR TEXT")
                /\ ~contains(c.promptText, "VOICE NARRATION TRANSCRIPT")
                /\ contains(rest, "CALENDAR TEXT") <=> hasCal
                /\ contains(rest, "VOICE NARRATION TRANSCRIPT") <=> hasNarr
                /\ hasCal => startsWith(rest, calendarHeader \o c.calendarText)
                /\ hasNarr => endsWith(rest, narrationHeader \o c.narration)
                /\ (hasCal /\ hasNarr) =>
                      indexOf(rest, "CALENDAR TEXT")
                          < indexOf(rest, "VOICE NARRATION TRANSCRIPT")

\* A request with both sections, the calendar text carrying white space at
\* its ends.
C7_Witness ==
    \E i \in 1..Len(calls) :
        /\ calls[i].pc = "request"
        /\ ~isBlank(calls[i].calendarText)
        /\ calls[i].calendarText # trim(calls[i].calendarText)
        /\ ~isBlank(calls[i].narration)
        /\ contains(requestText(calls[i]), narrationHeader)

\* C8: the prompt buildPrompt returned names the supplied date in its
\* preamble, lists the bullet of exactly the sources whose flag was true, and
\* ends with the instruction block.
C8_Prompt ==
    \A i \in 1..Len(calls) :
        calls[i].pc = "request" =>
            LET c == calls[i]
                p == c.promptText
                hasImage == c.imageFile # null
                hasText == truthy(trim(c.calendarText))
                hasNarration == truthy(trim(c.narration))
            IN  /\ contains(p, "for the week commencing " \o c.startDate \o ".**")
                /\ contains(p, bulletImage) <=> hasImage
                /\ contains(p, bulletText) <=> hasText
                /\ contains(p, bulletNarration) <=> hasNarration
                /\ endsWith(p, promptInstructions(c.startDate))

\* A prompt built with all three flags false.
C8_Witness ==
    \E i \in 1..Len(calls) :
        /\ calls[i].pc = "request"
        /\ calls[i].imageFile = null
        /\ isBlank(calls[i].calendarText)
        /\ isBlank(calls[i].narration)
        /\ calls[i].promptText # ""

\* C9: every submission that started finishes, and when it has finished the
\* busy flag is down, however generateTimesheet settled.
C9_LoadingReset == (calls # <<>>) ~> (calls = <<>> /\ ~isLoading)

\* A submission ended by generateTimesheet throwing, the busy flag down.
C9_Witness ==
    /\ calls = <<>>
    /\ last # null
    /\ last[1].caller = "handleSubmit"
    /\ last[1].outcome.kind = "throw"
    /\ ~isLoading

\* C10: while a request is in flight neither an error nor a timesheet is
\* stored, and once it has completed the stored error and timesheet are those
\* of that submission's outcome alone.
C10_LatestOutcomeOnly ==
    /\ calls # <<>> => error = null /\ generatedTimesheet = ""
    /\ (calls = <<>> /\ last # null) =>
          LET o == last[1].outcome
          IN  IF o.kind = "return" /\ ~startsWith(o.value, "Error:")
              THEN generatedTimesheet = o.value /\ error = null
              ELSE generatedTimesheet = "" /\ error # null

\* The second submission is in flight after the first one stored a timesheet.
C10_Witness ==
    /\ Len(calls) = 1
    /\ calls[1].id = 2
    /\ last # null
    /\ last[1].id = 1
    /\ last[1].outcome.kind = "return"
    /\ ~startsWith(last[1].outcome.value, "Error:")
    /\ generatedTimesheet = ""

\* ------------------------------------------------- the recorder in use

\* The form as mounted, in a browser with or without speech recognition.
RecorderInit ==
    /\ screenshotFile = null
    /\ calendarText = ""
    /\ narration = ""
    /\ weekStartDate \in Dates
    /\ generatedTimesheet = ""
    /\ isLoading = FALSE
    /\ error = null
    /\ calls = <<>>
    /\ last = null
    /\ submits = 0
    /\ vr = mounted
    /\ \E supported \in BOOLEAN : browser = atLoad(supported)

RecorderNext ==
    \/ StartRecording
    \/ GetUserMediaReject
    \/ GetUserMediaResolve
    \/ StopRecording
    \/ RecorderOnStop
    \/ Retake
    \/ \E results \in ResultEvents : OnResult(results)
    \/ \E err \in RecognitionErrors : OnRecognitionError(err)
    \/ RecognitionEnd

RecorderSpec == RecorderInit /\ [][RecorderNext]_vars

\* startRecording fails: getUserMedia rejects, or starting throws.
startRecordingFails ==
    \/ GetUserMediaReject
    \/ startThrows(vr, browser) /\ GetUserMediaResolve

\* C11: when microphone access fails in startRecording, the recorder ends in
\* IDLE with the microphone message stored and the parent's narration empty.
C11_MicrophoneFailure ==
    [][startRecordingFails =>
          /\ vr'.recordingState = "IDLE"
          /\ vr'.error = <<microphoneMessage>>
          /\ narration' = ""]_vars

\* C12: in the FINISHED state the parent's narration is the trimmed
\* accumulated final transcript.
C12_NarrationIsTranscript ==
    vr.recordingState = "FINISHED" => narration = trim(vr.finalTranscript)

====
